---- MODULE Spec2Model ----
(***************************************************************************)
(* Agent Delegation Gateway of buildaagent: the OpenClawGateway client     *)
(* (error classifier, connection prober, retry executor, wire calls) and   *)
(* the PersonaEngine that drives it (task router, delegation               *)
(* orchestrator), and the BuildAAgentServer that hands it chat requests.   *)
(* The session-based OpenClawGateway of the same source file, which maps   *)
(* each user to one remote session, has a specification of its own.        *)
(*                                                                         *)
(* Error messages are sequences of text tokens, so that startsWith,        *)
(* includes and the /^HTTP 5\d\d/ match of the source are computed on the  *)
(* text and not assumed.                                                   *)
(***************************************************************************)
EXTENDS Integers, Sequences, FiniteSets, TLC

\* ------------------------------------------------------------------ bounds

\* Largest maxRetries a configuration overrides the default with.
MaxRetriesOverride == 3

\* Chat requests the server handles at once.
MaxRequests == 2

\* Milliseconds Date.now() advances while they are handled.
MaxNow == 1

\* generateResponse calls the session-based gateway is given.
MaxCalls == 2

\* ------------------------------------------------------- program constants

DEFAULT_TIMEOUT == 120000
DEFAULT_MAX_RETRIES == 3
DEFAULT_BASE_DELAY_MS == 1000
DEFAULT_MAX_DELAY_MS == 30000

\* The abort timers of checkConnection and of healthCheck's round trip.
PROBE_TIMEOUT_MS == 10000
HEALTH_TIMEOUT_MS == 15000

DEFAULT_RETRY ==
  [maxRetries |-> DEFAULT_MAX_RETRIES,
   baseDelayMs |-> DEFAULT_BASE_DELAY_MS,
   maxDelayMs |-> DEFAULT_MAX_DELAY_MS]

\* --------------------------------------------------------------- text

DigitChar == <<"0", "1", "2", "3", "4", "5", "6", "7", "8", "9">>

IsDigit(t) == \E i \in 1..10 : DigitChar[i] = t

\* `${response.status}`: the decimal digits of a status code (100..999).
StatusText(s) ==
  <<DigitChar[(s \div 100) + 1], DigitChar[((s \div 10) % 10) + 1],
    DigitChar[(s % 10) + 1]>>

\* String.prototype.includes on token text.
Includes(msg, tok) == \E i \in 1..Len(msg) : msg[i] = tok

\* String.prototype.startsWith on token text.
StartsWith(msg, tok) == Len(msg) >= 1 /\ msg[1] = tok

\* /^HTTP 5\d\d/
MatchesHttp5xx(msg) ==
  /\ Len(msg) >= 4
  /\ msg[1] = "HTTP "
  /\ msg[2] = "5"
  /\ IsDigit(msg[3])
  /\ IsDigit(msg[4])

\* ------------------------------------------------------------- faults

\* error.cause.code values of a failed fetch ; "none" when there is no cause.
CauseCodes == {"ECONNREFUSED", "UND_ERR_SOCKET"}

\* The AbortController's abort(): fetch rejects with an AbortError.
AbortFault ==
  [name |-> "AbortError", code |-> "none",
   message |-> <<"This operation was aborted">>]

\* A transport failure of fetch: TypeError('fetch failed') with a cause.
NetFault(c) == [name |-> "TypeError", code |-> c, message |-> <<"fetch failed">>]

\* fetch refuses the URL itself (a bad gatewayUrl).
UrlFault ==
  [name |-> "TypeError", code |-> "ERR_INVALID_URL",
   message |-> <<"Failed to parse URL">>]

FetchFaults == {AbortFault, UrlFault} \cup {NetFault(c) : c \in CauseCodes}

\* Status codes the remote answers with.
Statuses == {200, 299, 300, 404, 499, 500, 599}

IsAnswer(s) == TRUE

IsOk(s) == s >= 200 /\ s <= 299

\* Response body texts of a non-2xx answer (an upstream proxy reports its own
\* failed fetch in the body).
ErrorBodies == {<<"Service Unavailable">>, <<"upstream error: ", "fetch failed">>}

\* new Error(`HTTP ${response.status}: ${errorText}`)
HttpError(s, body) ==
  [name |-> "Error", code |-> "none",
   message |-> <<"HTTP ">> \o StatusText(s) \o <<": ">> \o body]

PlainError(text) == [name |-> "Error", code |-> "none", message |-> <<text>>]

NoError == [name |-> "none", code |-> "none", message |-> <<>>]

\* ---------------------------------------------------- error classifier

categorizeError(error) ==
  IF error.name = "AbortError" THEN "timeout"
  ELSE IF \/ error.code \in {"ECONNREFUSED", "ECONNRESET", "ENOTFOUND",
                             "UND_ERR_CONNECT_TIMEOUT"}
          \/ Includes(error.message, "fetch failed") THEN "network"
  ELSE IF StartsWith(error.message, "HTTP ") THEN "http"
  ELSE "agent"

RetryAnyHttp(error) ==
  LET category == categorizeError(error) IN
  category \in {"timeout", "network", "http"}

isRetryable(error) ==
  LET category == categorizeError(error) IN
  IF category = "timeout" \/ category = "network" THEN TRUE
  ELSE IF category = "http" /\ MatchesHttp5xx(error.message) THEN TRUE
  ELSE FALSE

\* error.message?.match(/^HTTP (\d+)/)?.[1] || 'unknown'
StatusOfMessage(msg) ==
  IF Len(msg) >= 2 /\ msg[1] = "HTTP " /\ IsDigit(msg[2])
  THEN LET RECURSIVE Take(_)
           Take(i) == IF i <= Len(msg) /\ IsDigit(msg[i])
                      THEN <<msg[i]>> \o Take(i + 1) ELSE <<>>
       IN Take(2)
  ELSE <<"unknown">>

buildErrorMessage(error, context) ==
  LET category == categorizeError(error) IN
  CASE category = "timeout" ->
         context \o <<": Request timed out">>
    [] category = "network" ->
         context \o <<": Network error (">> \o error.message \o <<")">>
    [] category = "http" ->
         LET status == StatusOfMessage(error.message) IN
         IF status[1] = "5"
         THEN context \o <<": VPS server error (HTTP ">> \o status \o <<")">>
         ELSE context \o <<": HTTP ">> \o status \o <<" - ">> \o error.message
    [] OTHER -> context \o <<": ">> \o error.message

\* ------------------------------------------------------- configuration

\* An optional field of a configuration object: <<>> when absent, <<v>> when set.
Or(opt, default) == IF opt = <<>> \/ opt = <<"">> THEN default ELSE opt[1]

\* Partial<RetryConfig>: { ...DEFAULT_RETRY, ...config.retry }
MergeRetry(r) ==
  [maxRetries |-> IF r.maxRetries = <<>> THEN DEFAULT_RETRY.maxRetries
                  ELSE r.maxRetries[1],
   baseDelayMs |-> IF r.baseDelayMs = <<>> THEN DEFAULT_RETRY.baseDelayMs
                   ELSE r.baseDelayMs[1],
   maxDelayMs |-> IF r.maxDelayMs = <<>> THEN DEFAULT_RETRY.maxDelayMs
                  ELSE r.maxDelayMs[1]]

NoRetryOverride == [maxRetries |-> <<>>, baseDelayMs |-> <<>>, maxDelayMs |-> <<>>]

\* config.retry: nothing, maxRetries alone (the constructor takes any number,
\* a negative one too), or all three fields.
RetryOverrides ==
  {NoRetryOverride}
  \cup {[NoRetryOverride EXCEPT !.maxRetries = <<m>>] : m \in 0..MaxRetriesOverride}
  \cup {[maxRetries |-> <<2>>, baseDelayMs |-> <<>>, maxDelayMs |-> <<1500>>]}
  \cup {[NoRetryOverride EXCEPT !.maxRetries = <<-1>>]}

OneRetry == [NoRetryOverride EXCEPT !.maxRetries = <<1>>]

\* OpenClawConfig values the gateway is constructed with.
OpenClawConfigs ==
  {[gatewayUrl |-> <<>>, agentId |-> <<>>, authToken |-> <<"token">>,
    timeout |-> <<>>, retry |-> r] : r \in RetryOverrides}
  \cup
  {[gatewayUrl |-> <<"https://vps.example">>, agentId |-> <<"mega">>,
    authToken |-> t, timeout |-> <<60000>>, retry |-> OneRetry]
     : t \in {<<>>, <<"">>, <<"token">>}}

\* new OpenClawGateway(config, logger)
OpenClawGateway(config) ==
  [kind |-> "openclaw",
   gatewayUrl |-> Or(config.gatewayUrl, "http://localhost:18789"),
   agentId |-> Or(config.agentId, "main"),
   authToken |-> config.authToken,
   timeout |-> IF config.timeout = <<>> THEN DEFAULT_TIMEOUT ELSE config.timeout[1],
   retry |-> MergeRetry(config.retry)]

\* new DirectGateway(provider, apiKeyRef): authToken stands for its apiKey.
DirectGateway(apiKey) ==
  [kind |-> "direct",
   gatewayUrl |-> "https://api.anthropic.com",
   agentId |-> "none",
   authToken |-> apiKey,
   timeout |-> 0,
   retry |-> DEFAULT_RETRY]

Gateways ==
  {OpenClawGateway(c) : c \in OpenClawConfigs}
  \cup {DirectGateway(k) : k \in {<<>>, <<"sk-key">>}}

TokenAbsent(g) == g.authToken = <<>>

\* !this.authToken
NoToken(g) == g.authToken = <<>> \/ g.authToken = <<"">>

\* ------------------------------------------------------------- personas

NoPersona == [loaded |-> FALSE, tone |-> "none", emoji_usage |-> FALSE]

Personas ==
  {[loaded |-> TRUE, tone |-> "friendly", emoji_usage |-> TRUE],
   [loaded |-> TRUE, tone |-> "friendly", emoji_usage |-> FALSE],
   [loaded |-> TRUE, tone |-> "professional", emoji_usage |-> FALSE],
   [loaded |-> TRUE, tone |-> "casual", emoji_usage |-> TRUE]}

EchoTone(p) == p.tone

getErrorResponse(p) ==
  IF ~p.loaded THEN "I'm sorry, I encountered an error processing your message."
  ELSE IF p.tone = "friendly"
       THEN IF p.emoji_usage
            THEN "Oops! I ran into a small issue there. Could you try asking that again?"
            ELSE "Sorry about that! I had a little hiccup processing your message. Could you try again?"
  ELSE IF p.tone = "professional"
       THEN "I apologize, but I encountered an error processing your request. Please try again."
  ELSE "Something went wrong there. Mind trying that again?"

ApologyTexts == {getErrorResponse(p) : p \in Personas \cup {NoPersona}}

\* ---------------------------------------------------------- task router

\* Replies of the routing model, as token text.
Replies ==
  {<<"coder">>, <<" ", "Coder", "\n">>, <<"marketing">>, <<"assistant">>,
   <<"main">>, <<"banana">>, <<"the ", "coder">>, <<>>}

LowerCase(t) == IF t = "Coder" THEN "coder" ELSE t

\* The tokens /[^a-z]/g leaves nothing of.
NonLetters == {" ", "\n", "."}

\* "the " loses its blank.
StripToken(t) == IF t = "the " THEN "the" ELSE t

\* decision.trim().toLowerCase().replace(/[^a-z]/g, '')
RECURSIVE CleanDecision(_)
CleanDecision(d) ==
  IF d = <<>> THEN <<>>
  ELSE LET t == LowerCase(Head(d)) IN
       IF t \in NonLetters THEN CleanDecision(Tail(d))
       ELSE <<StripToken(t)>> \o CleanDecision(Tail(d))

Vocabulary == {"main", "coder", "marketing", "assistant"}

DecideUnchecked(decision) ==
  LET agent == CleanDecision(decision) IN
  IF Len(agent) = 1 THEN agent[1] ELSE "main"

\* The part of orchestrateTask after the routing reply is in.
DecideAgent(decision) ==
  LET agent == CleanDecision(decision) IN
  IF Len(agent) = 1 /\ agent[1] \in Vocabulary THEN agent[1] ELSE "main"

\* agentMap[taskType] of delegateToAgent: it has no entry for 'assistant'.
agentMap(g, taskType) ==
  CASE taskType = "main" -> g.agentId
    [] taskType = "coder" -> "coder"
    [] taskType = "marketing" -> "marketing"
    [] OTHER -> "undefined"

agentLabels(taskType) ==
  CASE taskType = "main" -> "Mega"
    [] taskType = "coder" -> "Coder"
    [] taskType = "marketing" -> "Marketing"
    [] taskType = "assistant" -> "Personal Assistant"
    [] OTHER -> "undefined"

\* ------------------------------------------------------------ payloads

\* Shapes of a 2xx chat-completion body.
Payloads ==
  {"valid", "emptyContent", "numberContent", "nullContent", "noMessage",
   "emptyChoices", "noChoices", "notJson"}

\* What the body of fn makes of a 2xx payload: the content it returns, or the
\* fault it raises.
PayloadFault(opName, p) ==
  CASE p = "notJson" ->
         [name |-> "SyntaxError", code |-> "none",
          message |-> <<"Unexpected token in JSON">>]
    [] p \in {"emptyChoices", "noChoices"} ->
         IF opName = "delegateToAgent"
         THEN PlainError("Unexpected response format from delegated agent")
         ELSE PlainError("Unexpected OpenAI response format")
    [] p \in {"nullContent", "noMessage"} ->
         [name |-> "TypeError", code |-> "none",
          message |-> <<"Cannot read properties of undefined">>]
    [] OTHER -> NoError

PayloadContent(p) ==
  CASE p = "valid" -> "text"
    [] p = "emptyContent" -> ""
    [] OTHER -> "5"

Pow2(n) == 2 ^ n

BackoffNoCap(retry, attempt) == retry.baseDelayMs * Pow2(attempt)

\* Math.min(baseDelayMs * Math.pow(2, attempt), maxDelayMs)
BackoffDelay(retry, attempt) ==
  LET d == retry.baseDelayMs * Pow2(attempt) IN
  IF d < retry.maxDelayMs THEN d ELSE retry.maxDelayMs

\* --------------------------------------------------------------- state

VARIABLES
  gw,           \* the gateway object the engine was constructed with
  routingKey,   \* process.env.ANTHROPIC_API_KEY is set
  skills,       \* the persona has skills the registry knows
  persona,      \* PersonaEngine.persona (NoPersona: null)
  pc,           \* where the request in progress stands
  op,           \* the entry point of the request in progress
  msgKind,      \* the type of the inbound `message` value
  taskType,     \* delegateTask's taskType
  targetAgent,  \* delegateToAgent's targetAgent
  conn,         \* the result of checkConnection
  probed,       \* history: what the probe GET of checkConnection met
  opName,       \* withRetry's operationName
  attempt,      \* withRetry's loop counter
  lastError,    \* withRetry's lastError
  cause,        \* history: what happened on the wire to raise lastError
  gwError,      \* the message of the error the gateway operation raised
  result,       \* the content a wire call returned
  invocations,  \* history: calls of fn by withRetry, per operation
  sleeps,       \* history: the delays withRetry slept, per operation
  log,          \* history: the network calls and sleeps of this request
  inflight,     \* network calls issued and not yet settled
  outcome,      \* what the entry point returned or raised
  decision,     \* orchestrateTask's decision: the routing reply, or its failure
  clock,        \* history: the time the timers of withRetry have run, in ms
  deadline,     \* the abort timer armed for the call in flight, in ms (0: none)
  personaEngine,  \* BuildAAgentServer.personaEngine: the request that made it
  engines,      \* the PersonaEngine objects the server made: currentPersona
  reqs,         \* the chat requests the server is handling
  now,          \* Date.now()
  sessions,     \* session gateway: its userId -> sessionKey map (0: no entry)
  spawned,      \* the sessions the remote has spawned: the user of each key
  remote,       \* the session keys the remote lists as active
  calls,        \* the generateResponse calls on the session gateway
  cleanup       \* the cleanupSessions run

cfgVars == <<gw, routingKey, skills>>
retryVars == <<opName, attempt, lastError, cause, invocations, sleeps, clock>>
reqVars ==
  <<op, msgKind, taskType, decision, targetAgent, conn, probed, gwError, result>>
srvVars == <<personaEngine, engines, reqs, now>>
sessVars == <<sessions, spawned, remote, calls, cleanup>>
vars ==
  <<gw, routingKey, skills, persona, pc, op, msgKind, taskType, targetAgent,
    conn, probed, opName, attempt, lastError, cause, gwError, result,
    invocations,
    sleeps,
    log, inflight, outcome, decision, clock, deadline, personaEngine, engines,
    reqs, now, sessions, spawned, remote, calls, cleanup>>

RetryOps == {"delegateToAgent", "generateResponse"}

NoCause == [kind |-> "none", status |-> 0]

\* fetch rejected: the deadline aborted it, or the transport failed.
NoDecision == [kind |-> "none", reply |-> <<>>]

\* routeWithLLM returned `reply`.
Replied(reply) == [kind |-> "reply", reply |-> reply]

\* routeWithLLM threw: no key, a failed fetch, a non-2xx answer.
Threw == [kind |-> "threw", reply |-> <<>>]

Rejected(f) ==
  [kind |-> IF f = AbortFault THEN "deadline" ELSE "transport", status |-> 0]

\* The remote answered with a non-2xx status.
Answered(s) == [kind |-> "status", status |-> s]

\* The remote answered 2xx with a payload fn cannot use.
Malformed(s) == [kind |-> "payload", status |-> 0]

NoConn == [reachable |-> FALSE, latencyMs |-> 0, error |-> <<>>]

\* Date.now() - start of a probe whose GET settled before the deadline.
Latencies == {1, 250}
NoOutcome ==
  [kind |-> "none", text |-> <<>>, agent |-> "none", healthy |-> FALSE]

Returned(kind, text, agent) ==
  [kind |-> kind, text |-> text, agent |-> agent, healthy |-> FALSE]

AlwaysHealthy(healthy, text) ==
  [kind |-> "health", text |-> text, agent |-> "none", healthy |-> TRUE]

Health(healthy, text) ==
  [kind |-> "health", text |-> text, agent |-> "none", healthy |-> healthy]

MsgKinds == {"string", "number"}

\* The engine taken by itself: no BuildAAgentServer around it.
NoServer ==
  /\ personaEngine = 0
  /\ engines = <<>>
  /\ reqs = <<>>
  /\ now = 0

\* No session-based gateway in use.
NoSessionGateway ==
  /\ sessions = <<>>
  /\ spawned = <<>>
  /\ remote = {}
  /\ calls = <<>>
  /\ cleanup = <<>>

Init ==
  /\ gw \in Gateways
  /\ routingKey \in BOOLEAN
  /\ skills \in BOOLEAN
  /\ persona = NoPersona
  /\ pc = "idle"
  /\ op = "none"
  /\ msgKind = "string"
  /\ taskType = "none"
  /\ targetAgent = "none"
  /\ conn = NoConn
  /\ probed = NoCause
  /\ opName = "none"
  /\ attempt = 0
  /\ lastError = NoError
  /\ cause = NoCause
  /\ gwError = <<>>
  /\ result = "none"
  /\ invocations = [o \in RetryOps |-> 0]
  /\ sleeps = [o \in RetryOps |-> <<>>]
  /\ log = <<>>
  /\ inflight = 0
  /\ outcome = NoOutcome
  /\ decision = NoDecision
  /\ clock = 0
  /\ deadline = 0
  /\ NoServer
  /\ NoSessionGateway

Quiet == pc \in {"idle", "done"}

\* The locals of delegateTask, delegateToAgent, generateResponse and withRetry
\* go out of scope.
Leave ==
  /\ taskType' = "none"
  /\ decision' = NoDecision
  /\ targetAgent' = "none"
  /\ conn' = NoConn
  /\ probed' = NoCause
  /\ opName' = "none"
  /\ attempt' = 0
  /\ lastError' = NoError
  /\ cause' = NoCause
  /\ gwError' = <<>>
  /\ result' = "none"

\* A fresh request: no locals, an empty history.
Fresh(entry, kind) ==
  /\ op' = entry
  /\ msgKind' = kind
  /\ Leave
  /\ invocations' = [o \in RetryOps |-> 0]
  /\ sleeps' = [o \in RetryOps |-> <<>>]
  /\ clock' = 0

\* The abort timer each call arms: setTimeout(() => controller.abort(), ms)
\* with the controller's signal handed to fetch; 0 for a fetch without signal.
DeadlineOf(call) ==
  CASE call = "probe" -> PROBE_TIMEOUT_MS
    [] call \in {"dpost", "gpost"} -> gw.timeout
    [] call = "hpost" -> HEALTH_TIMEOUT_MS
    [] OTHER -> 0

\* fetch(...): one request goes out.
Issue(call) ==
  /\ log' = Append(log, call)
  /\ inflight' = inflight + 1
  /\ deadline' = DeadlineOf(call)

\* The call settles; the finally block clears its timer.
Settle ==
  /\ inflight' = inflight - 1
  /\ deadline' = 0

TokenDropped(g) == [g EXCEPT !.authToken = <<>>]

\* The gateway object a method of OpenClawGateway leaves behind: gatewayUrl,
\* agentId, authToken, timeout and retry are assigned in the constructor and by
\* no method.
AfterCall(g) == g

\* ----------------------------------------------------- engine lifecycle

\* A PersonaEngine is constructed and loadPersona(personaId) run on it before
\* it takes a message.
loadPersona(p) ==
  /\ Quiet
  /\ persona' = p
  /\ Fresh("none", "string")
  /\ log' = <<>>
  /\ inflight' = 0
  /\ deadline' = 0
  /\ outcome' = NoOutcome
  /\ pc' = "idle"
  /\ UNCHANGED <<cfgVars, srvVars, sessVars>>

\* PersonaEngine.stop(), also run from the SIGTERM handler while a request waits.
stop ==
  /\ persona.loaded
  /\ persona' = NoPersona
  /\ UNCHANGED <<cfgVars, srvVars, sessVars,
                 reqVars, retryVars, pc, log, inflight,
                 deadline, outcome>>

\* --------------------------------------------------------- processMessage

\* processMessage, up to the try block.
processMessage(kind) ==
  /\ Quiet
  /\ Fresh("processMessage", kind)
  /\ log' = <<>>
  /\ inflight' = 0
  /\ deadline' = 0
  /\ IF ~persona.loaded
     THEN /\ outcome' = Returned("raised", <<"No persona loaded">>, "none")
          /\ pc' = "done"
     ELSE /\ outcome' = NoOutcome
          /\ pc' = "pm_try"
  /\ UNCHANGED <<cfgVars, srvVars, sessVars, persona>>

\* The debug lines that open the try block: message.substring(0, 80).
pmTry ==
  /\ pc = "pm_try"
  /\ pc' = IF msgKind = "string" THEN "dt_entry" ELSE "pm_catch"
  /\ UNCHANGED <<cfgVars, srvVars, sessVars,
                 reqVars, retryVars, persona, log, inflight,
                 deadline, outcome>>

\* delegateTask: the instanceof gate.
delegateTask ==
  /\ pc = "dt_entry"
  /\ IF gw.kind = "openclaw"
     THEN /\ pc' = "orch"
          /\ UNCHANGED log
     ELSE /\ pc' = "fallback"
          /\ log' = Append(log, "delegSkipped")
  /\ UNCHANGED <<cfgVars, srvVars, sessVars,
                 reqVars, retryVars, persona, inflight,
                 deadline, outcome>>

\* orchestrateTask, up to the fetch of routeWithLLM.
orchestrateTask ==
  /\ pc = "orch"
  /\ IF routingKey
     THEN /\ Issue("classify")
          /\ pc' = "orch_wait"
          /\ UNCHANGED <<taskType, decision>>
     ELSE /\ taskType' = "main"
          /\ decision' = Threw
          /\ pc' = "dt_call"
          /\ UNCHANGED <<log, inflight, deadline>>
  /\ UNCHANGED <<cfgVars, srvVars, sessVars,
                 retryVars, persona, outcome, op, msgKind,
                 targetAgent,
                 conn, probed, gwError, result>>

\* The routing call settles: a reply, or a failure orchestrateTask catches.
orchestrateDone ==
  /\ pc = "orch_wait"
  /\ Settle
  /\ \/ \E reply \in Replies :
          /\ decision' = Replied(reply)
          /\ taskType' = DecideAgent(reply)
     \/ /\ decision' = Threw
        /\ taskType' = "main"
  /\ pc' = "dt_call"
  /\ UNCHANGED <<cfgVars, srvVars, sessVars,
                 retryVars, persona, outcome, op, msgKind,
                 targetAgent,
                 conn, probed, gwError, result, log>>

\* ------------------------------------------------------ delegateToAgent

\* delegateToAgent, up to the fetch of checkConnection.
delegateToAgent ==
  /\ pc = "dt_call"
  /\ targetAgent' = agentMap(gw, taskType)
  /\ decision' = NoDecision
  /\ IF NoToken(gw)
     THEN /\ gwError' = <<"Auth token required for agent delegation">>
          /\ pc' = "fallback"
          /\ log' = Append(log, "delegFailed")
          /\ UNCHANGED <<inflight, deadline>>
     ELSE /\ Issue("probe")
          /\ pc' = "probe_wait"
          /\ UNCHANGED gwError
  /\ gw' = AfterCall(gw)
  /\ UNCHANGED <<routingKey, skills, srvVars, sessVars,
                 retryVars, persona, outcome, op, msgKind,
                 taskType, conn, probed, result>>

ProbeUnreported(f, ms) == NoConn

\* The catch block of checkConnection; the abort fires at the deadline.
ProbeFailed(f, ms) ==
  [reachable |-> FALSE,
   latencyMs |-> IF f = AbortFault THEN PROBE_TIMEOUT_MS ELSE ms,
   error |-> IF categorizeError(f) = "timeout"
             THEN <<"Connection timed out after 10s">>
             ELSE <<"Connection failed: ">> \o f.message]

\* The rest of checkConnection: the GET settles.
checkConnection ==
  /\ pc = "probe_wait"
  /\ Settle
  /\ \/ \E s \in Statuses, ms \in Latencies :
          /\ conn' = [reachable |-> IsOk(s), latencyMs |-> ms, error |-> <<>>]
          /\ probed' = Answered(s)
     \/ \E f \in FetchFaults, ms \in Latencies :
          /\ conn' = ProbeFailed(f, ms)
          /\ probed' = Rejected(f)
  /\ log' = Append(log, IF conn'.reachable THEN "probeOk" ELSE "probeDown")
  /\ pc' = IF op = "healthCheck" THEN "hc_probed" ELSE "dt_probed"
  /\ gw' = AfterCall(gw)
  /\ UNCHANGED <<routingKey, skills, srvVars, sessVars,
                 retryVars, persona, outcome, op, msgKind,
                 taskType, decision,
                 targetAgent, gwError, result>>

\* What a withRetry call starts from.
EnterRetry(name) ==
  /\ opName' = name
  /\ attempt' = 0
  /\ lastError' = NoError
  /\ cause' = NoCause
  /\ UNCHANGED <<invocations, sleeps, clock>>

GateOpen(c) == FALSE

\* if (!conn.reachable) throw
Unreachable(c) == ~c.reachable

\* delegateToAgent after the probe: the reachability gate.
delegateProbed ==
  /\ pc = "dt_probed"
  /\ IF Unreachable(conn)
     THEN /\ gwError' =
               <<"Cannot delegate to ", targetAgent, ": VPS is unreachable. ">>
               \o (IF conn.error # <<>> THEN conn.error
                   ELSE <<"Check gateway URL and server status.">>)
          /\ pc' = "fallback"
          /\ log' = Append(log, "delegFailed")
          /\ UNCHANGED retryVars
     ELSE /\ EnterRetry("delegateToAgent")
          /\ pc' = "retry_loop"
          /\ UNCHANGED <<gwError, log>>
  /\ probed' = NoCause
  /\ UNCHANGED <<cfgVars, srvVars, sessVars,
                 persona, outcome, op, msgKind, taskType,
                 decision, targetAgent, conn, result, inflight, deadline>>

\* -------------------------------------------------------------- withRetry

PostOf(name) == IF name = "delegateToAgent" THEN "dpost" ELSE "gpost"

NoContext == <<>>

\* `OpenClaw ${operationName}`
RetryContext ==
  IF opName = "delegateToAgent"
  THEN <<"OpenClaw delegateToAgent(", targetAgent, ")">>
  ELSE <<"OpenClaw generateResponse">>

FailsRequest == "pm_catch"

\* Where the error withRetry raises lands: delegateTask's catch returns null,
\* processMessage's catch apologises.
FailedTo == IF opName = "delegateToAgent" THEN "fallback" ELSE "pm_catch"

FailedEvent == IF opName = "delegateToAgent" THEN "delegFailed" ELSE "genFailed"

OkEvent == IF opName = "delegateToAgent" THEN "delegOk" ELSE "genOk"

\* The loop test, and fn() up to its fetch.
withRetry ==
  /\ pc = "retry_loop"
  /\ IF attempt <= gw.retry.maxRetries
     THEN /\ invocations' = [invocations EXCEPT ![opName] = @ + 1]
          /\ Issue(PostOf(opName))
          /\ pc' = "post_wait"
          /\ UNCHANGED gwError
     ELSE /\ gwError' = <<"TypeError: Cannot read properties of undefined">>
          /\ pc' = FailedTo
          /\ log' = Append(log, FailedEvent)
          /\ UNCHANGED <<invocations, inflight, deadline>>
  /\ gw' = AfterCall(gw)
  /\ UNCHANGED <<routingKey, skills, srvVars, sessVars,
                 persona, outcome, op, msgKind, taskType,
                 decision, targetAgent,
                 conn, probed, result, opName, attempt, lastError, cause,
                 sleeps, clock>>

\* if (attempt === this.retry.maxRetries || !isRetryable(error)) break
Break(retry, k, error) == k = retry.maxRetries \/ ~isRetryable(error)

\* The catch block of the loop.
Caught(error, why) ==
  /\ lastError' = error
  /\ cause' = why
  /\ result' = result
  /\ IF Break(gw.retry, attempt, error)
     THEN /\ gwError' = buildErrorMessage(error, RetryContext)
          /\ pc' = FailedTo
          /\ log' = Append(log, FailedEvent)
          /\ UNCHANGED <<sleeps, clock>>
     ELSE /\ sleeps' = [sleeps EXCEPT
                          ![opName] = Append(@, BackoffDelay(gw.retry, attempt))]
          /\ log' = Append(log, "sleep")
          /\ pc' = "backoff"
          /\ UNCHANGED <<gwError, clock>>

\* fn() returns.
Returns(content) ==
  /\ result' = content
  /\ pc' = "store"
  /\ log' = Append(log, OkEvent)
  /\ UNCHANGED <<lastError, cause, gwError, sleeps, clock>>

\* The POST of fn settles.
postDone ==
  /\ pc = "post_wait"
  /\ Settle
  /\ \/ \E f \in FetchFaults : Caught(f, Rejected(f))
     \/ \E s \in Statuses, b \in ErrorBodies :
          /\ ~IsOk(s)
          /\ Caught(HttpError(s, b), Answered(s))
     \/ \E s \in Statuses, p \in Payloads :
          /\ IsOk(s)
          /\ IF PayloadFault(opName, p) = NoError
             THEN Returns(PayloadContent(p))
             ELSE Caught(PayloadFault(opName, p), Malformed(s))
  /\ UNCHANGED <<cfgVars, srvVars, sessVars,
                 persona, outcome, op, msgKind, taskType,
                 decision, targetAgent,
                 conn, probed, opName, attempt, invocations>>

NextAttemptStuck(k) == k

NextAttemptSkips(k) == k + 2

ElapseNothing(t, ms) == t

\* setTimeout(resolve, ms): the promise resolves once ms have passed.
Elapse(t, ms) == t + ms

\* attempt++
NextAttempt(k) == k + 1

\* sleep(delay) is over: the next turn of the loop.
sleep ==
  /\ pc = "backoff"
  /\ attempt' = NextAttempt(attempt)
  /\ clock' = Elapse(clock, sleeps[opName][Len(sleeps[opName])])
  /\ pc' = "retry_loop"
  /\ UNCHANGED <<cfgVars, srvVars, sessVars,
                 reqVars, persona, outcome, opName, lastError,
                 cause, invocations, sleeps, log, inflight, deadline>>

\* ------------------------------------------- the direct-generation tier

\* `**${label}** · ${result.response}` for a delegated reply, the text itself
\* for a direct one.
ResponseOf(name) ==
  IF name = "delegateToAgent"
  THEN Returned("response", <<"**", agentLabels(taskType), "** - ", result>>,
                targetAgent)
  ELSE Returned("response", <<result>>, "none")

FallsThrough(name) == IF name = "delegateToAgent" THEN "fallback" ELSE "done"

\* return delegated / return { message: response, ... }
AfterStore(name) == "done"

StoreRethrows(dbOk, response) ==
  IF dbOk THEN response
  ELSE Returned("raised", <<"Failed to store conversation">>, "none")

\* The catch of storeConversation logs the failure of the store and does not
\* throw: the response goes on to the caller either way.
StoreOutcome(dbOk, response) == response

\* storeConversation swallows a failure of the store; processMessage returns.
storeConversation ==
  /\ pc = "store"
  /\ \E dbOk \in BOOLEAN :
       /\ log' = Append(log, IF dbOk THEN "store" ELSE "storeFailed")
       /\ outcome' = StoreOutcome(dbOk, ResponseOf(opName))
  /\ pc' = AfterStore(opName)
  /\ Leave
  /\ UNCHANGED <<cfgVars, srvVars, sessVars,
                 op, msgKind, invocations, sleeps, clock,
                 persona, inflight, deadline>>

\* tryExecuteSkill, up to the fetch of routeWithLLM.
tryExecuteSkill ==
  /\ pc = "fallback"
  /\ Leave
  /\ IF persona.loaded /\ skills /\ routingKey
     THEN /\ Issue("skillroute")
          /\ pc' = "skill_wait"
     ELSE /\ pc' = "gen"
          /\ UNCHANGED <<log, inflight, deadline>>
  /\ UNCHANGED <<cfgVars, srvVars, sessVars,
                 op, msgKind, invocations, sleeps, clock,
                 persona, outcome>>

\* The skill-routing call settles; a failure, and a failure of the skill, are
\* caught.
skillRouted ==
  /\ pc = "skill_wait"
  /\ Settle
  /\ pc' = "gen"
  /\ UNCHANGED <<cfgVars, srvVars, sessVars,
                 reqVars, retryVars, persona, outcome, log>>

\* gateway.generateResponse, up to withRetry (OpenClawGateway) or to the fetch
\* (DirectGateway).
generateResponse ==
  /\ pc = "gen"
  /\ IF NoToken(gw)
     THEN /\ gwError' = IF gw.kind = "openclaw"
                        THEN <<"Auth token required for OpenClaw OpenAI API">>
                        ELSE <<"No API key configured for provider">>
          /\ pc' = "pm_catch"
          /\ log' = log \o <<"genCall", "genFailed">>
          /\ UNCHANGED <<retryVars, inflight, deadline>>
     ELSE IF gw.kind = "openclaw"
     THEN /\ EnterRetry("generateResponse")
          /\ pc' = "retry_loop"
          /\ log' = Append(log, "genCall")
          /\ UNCHANGED <<gwError, inflight, deadline>>
     ELSE /\ log' = log \o <<"genCall", "direct">>
          /\ inflight' = inflight + 1
          /\ deadline' = DeadlineOf("direct")
          /\ opName' = "direct"
          /\ pc' = "direct_wait"
          /\ UNCHANGED <<gwError, attempt, lastError, cause, invocations,
                         sleeps, clock>>
  /\ gw' = AfterCall(gw)
  /\ UNCHANGED <<routingKey, skills, srvVars, sessVars,
                 persona, outcome, op, msgKind, taskType,
                 decision, targetAgent,
                 conn, probed, result>>

\* DirectGateway's provider call settles.
directDone ==
  /\ pc = "direct_wait"
  /\ Settle
  /\ \/ /\ result' = "text"
        /\ pc' = "store"
        /\ log' = Append(log, "genOk")
        /\ UNCHANGED gwError
     \/ /\ gwError' = <<"Anthropic API call failed">>
        /\ pc' = "pm_catch"
        /\ log' = Append(log, "genFailed")
        /\ UNCHANGED result
  /\ UNCHANGED <<cfgVars, srvVars, sessVars,
                 retryVars, persona, outcome, op, msgKind,
                 taskType, decision,
                 targetAgent, conn, probed>>

\* The catch block of processMessage.
pmCatch ==
  /\ pc = "pm_catch"
  /\ outcome' = Returned("apology", <<getErrorResponse(persona)>>, "none")
  /\ pc' = "done"
  /\ Leave
  /\ UNCHANGED <<cfgVars, srvVars, sessVars,
                 op, msgKind, invocations, sleeps, clock,
                 persona, log, inflight, deadline>>

\* ------------------------------------------------------------ healthCheck

\* OpenClawGateway.healthCheck, up to the fetch of checkConnection.
healthCheck ==
  /\ Quiet
  /\ gw.kind = "openclaw"
  /\ Fresh("healthCheck", "string")
  /\ IF NoToken(gw)
     THEN /\ outcome' = Health(FALSE, <<"No auth token configured">>)
          /\ log' = <<>>
          /\ inflight' = 0
          /\ deadline' = 0
          /\ pc' = "done"
     ELSE /\ outcome' = NoOutcome
          /\ log' = <<"probe">>
          /\ inflight' = 1
          /\ deadline' = DeadlineOf("probe")
          /\ pc' = "probe_wait"
  /\ gw' = AfterCall(gw)
  /\ UNCHANGED <<routingKey, skills, srvVars, sessVars, persona>>

\* healthCheck after the probe.
healthProbed ==
  /\ pc = "hc_probed"
  /\ IF ~conn.reachable
     THEN /\ outcome' =
               Health(FALSE, <<"VPS unreachable: ">>
                             \o (IF conn.error # <<>> THEN conn.error
                                 ELSE <<"connection failed">>))
          /\ pc' = "done"
          /\ conn' = NoConn
          /\ UNCHANGED <<log, inflight, deadline>>
     ELSE /\ Issue("hpost")
          /\ pc' = "hpost_wait"
          /\ UNCHANGED <<outcome, conn>>
  /\ probed' = NoCause
  /\ UNCHANGED <<cfgVars, srvVars, sessVars,
                 retryVars, persona, op, msgKind, taskType,
                 decision, targetAgent, gwError, result>>

\* The chat round-trip of healthCheck settles.
healthDone ==
  /\ pc = "hpost_wait"
  /\ Settle
  /\ \/ \E s \in Statuses :
          /\ outcome' = Health(IsOk(s), IF IsOk(s) THEN <<>>
                                        ELSE <<"HTTP ">> \o StatusText(s))
          /\ log' = Append(log, IF IsOk(s) THEN "hpostOk" ELSE "hpostFailed")
     \/ \E f \in FetchFaults :
          /\ outcome' = Health(FALSE, buildErrorMessage(f, <<"Health check">>))
          /\ log' = Append(log, "hpostFailed")
  /\ pc' = "done"
  /\ conn' = NoConn
  /\ UNCHANGED <<cfgVars, srvVars, sessVars,
                 retryVars, persona, op, msgKind, taskType,
                 decision, targetAgent, probed, gwError, result>>

\* ---------------------------------------------------------- specification

Next ==
  \/ \E p \in Personas : loadPersona(p)
  \/ stop
  \/ \E k \in MsgKinds : processMessage(k)
  \/ pmTry
  \/ delegateTask
  \/ orchestrateTask
  \/ orchestrateDone
  \/ delegateToAgent
  \/ checkConnection
  \/ delegateProbed
  \/ withRetry
  \/ postDone
  \/ sleep
  \/ storeConversation
  \/ tryExecuteSkill
  \/ skillRouted
  \/ generateResponse
  \/ directDone
  \/ pmCatch
  \/ healthCheck
  \/ healthProbed
  \/ healthDone

Spec == Init /\ [][Next]_vars

\* ------------------------------------------------- the HTTP API server

\* BuildAAgentServer handling POST /api/chat requests that overlap: each await
\* of its processMessage is a point where another request runs.  What an
\* engine does with a message is the specification above; here a request is
\* followed through the server's shared personaEngine field and through the
\* one POST of its delegation.

engVars ==
  <<cfgVars, reqVars, retryVars, persona, pc, log, inflight, outcome, deadline>>

Requests == 1..MaxRequests

\* req.body.persona values whose configuration file exists.
PersonaIds == {"personal-assistant", "coder-buddy"}

NewRequest ==
  [pc |-> "new", persona |-> "none", handledAs |-> "none", tag |-> <<>>,
   outcome |-> "none"]

\* The gateway the engines are constructed with.
ServerGateways ==
  {DirectGateway(<<"sk-key">>),
   OpenClawGateway([gatewayUrl |-> <<>>, agentId |-> <<>>,
                    authToken |-> <<"token">>, timeout |-> <<>>,
                    retry |-> NoRetryOverride])}

ServerInit ==
  /\ gw \in ServerGateways
  /\ routingKey = TRUE
  /\ skills = FALSE
  /\ persona = NoPersona
  /\ pc = "idle"
  /\ op = "none"
  /\ msgKind = "string"
  /\ taskType = "none"
  /\ targetAgent = "none"
  /\ conn = NoConn
  /\ probed = NoCause
  /\ opName = "none"
  /\ attempt = 0
  /\ lastError = NoError
  /\ cause = NoCause
  /\ gwError = <<>>
  /\ result = "none"
  /\ invocations = [o \in RetryOps |-> 0]
  /\ sleeps = [o \in RetryOps |-> <<>>]
  /\ log = <<>>
  /\ inflight = 0
  /\ outcome = NoOutcome
  /\ decision = NoDecision
  /\ clock = 0
  /\ deadline = 0
  /\ personaEngine = 0
  /\ engines = [r \in Requests |-> "null"]
  /\ reqs = [r \in Requests |-> NewRequest]
  /\ now = 0
  /\ NoSessionGateway

\* BuildAAgentServer.processMessage up to its first await: a new engine when
\* there is none or the current one is not on the persona asked for.
serverProcessMessage(r, personaId) ==
  /\ reqs[r].pc = "new"
  /\ IF personaEngine = 0 \/ engines[personaEngine] # personaId
     THEN /\ personaEngine' = r
          /\ reqs' = [reqs EXCEPT ![r].pc = "loading", ![r].persona = personaId]
     ELSE /\ reqs' = [reqs EXCEPT ![r].pc = "loaded", ![r].persona = personaId]
          /\ UNCHANGED personaEngine
  /\ UNCHANGED <<engVars, sessVars, engines, now>>

\* loadPersona resolves on the engine this request constructed.
serverLoaded(r) ==
  /\ reqs[r].pc = "loading"
  /\ engines' = [engines EXCEPT ![r] = reqs[r].persona]
  /\ reqs' = [reqs EXCEPT ![r].pc = "loaded"]
  /\ UNCHANGED <<engVars, sessVars, personaEngine, now>>

\* this.personaEngine.processMessage(message, userId): the field is read now.
serverCall(r) ==
  /\ reqs[r].pc = "loaded"
  /\ IF engines[personaEngine] = "null"
     THEN reqs' = [reqs EXCEPT ![r].pc = "done", ![r].outcome = "raised"]
     ELSE reqs' = [reqs EXCEPT
                     ![r].pc = IF gw.kind = "openclaw" THEN "delegating"
                               ELSE "answering",
                     ![r].handledAs = engines[personaEngine]]
  /\ UNCHANGED <<engVars, sessVars, personaEngine, engines, now>>

\* user: `delegation-${taskType}-${Date.now()}`
RequestTag(t, ms) == <<"delegation-", t, "-", ms>>

\* The POST of delegateToAgent goes out.
serverDelegate(r, t) ==
  /\ reqs[r].pc = "delegating"
  /\ reqs' = [reqs EXCEPT ![r].pc = "answering", ![r].tag = RequestTag(t, now)]
  /\ UNCHANGED <<engVars, sessVars, personaEngine, engines, now>>

\* The engine returns and the server answers the request.
serverRespond(r) ==
  /\ reqs[r].pc = "answering"
  /\ reqs' = [reqs EXCEPT ![r].pc = "done", ![r].outcome = "response"]
  /\ UNCHANGED <<engVars, sessVars, personaEngine, engines, now>>

\* A millisecond passes.
tick ==
  /\ now < MaxNow
  /\ now' = now + 1
  /\ UNCHANGED <<engVars, sessVars, personaEngine, engines, reqs>>

ServerNext ==
  \/ \E r \in Requests, personaId \in PersonaIds : serverProcessMessage(r, personaId)
  \/ \E r \in Requests : serverLoaded(r)
  \/ \E r \in Requests : serverCall(r)
  \/ \E r \in Requests, t \in {"main", "coder"} : serverDelegate(r, t)
  \/ \E r \in Requests : serverRespond(r)
  \/ tick

ServerSpec == ServerInit /\ [][ServerNext]_vars

\* ------------------------------------------- the session-based gateway

\* The OpenClawGateway that keeps a userId -> sessionKey map and talks to
\* /api/sessions/{spawn,list,send}.  Its methods are async: every await of a
\* fetch is a point where another call, or cleanupSessions, runs.  A session
\* key is the ordinal of the spawn that made it; 0 stands for no entry.

Calls == 1..MaxCalls

SessionUsers == {"alice", "bob"}

NewCall == [pc |-> "new", user |-> "none", key |-> 0]

NoCleanup ==
  [pc |-> "idle", visited |-> {}, user |-> "none", key |-> 0, deleted |-> <<>>]

\* this.sessions.delete(userId)
SessionsDelete(map, userId) == [map EXCEPT ![userId] = 0]

\* this.sessions.set(userId, sessionKey)
SessionsSet(map, userId, sessionKey) == [map EXCEPT ![userId] = sessionKey]

\* What isSessionActive returns once /api/sessions/list has answered (listed)
\* or has not (a non-2xx status or a rejected fetch).
SessionListed(listed, sessionKey) == listed /\ sessionKey \in remote

SessionInit ==
  /\ gw = DirectGateway(<<>>)
  /\ routingKey = FALSE
  /\ skills = FALSE
  /\ persona = NoPersona
  /\ pc = "idle"
  /\ op = "none"
  /\ msgKind = "string"
  /\ taskType = "none"
  /\ targetAgent = "none"
  /\ conn = NoConn
  /\ probed = NoCause
  /\ opName = "none"
  /\ attempt = 0
  /\ lastError = NoError
  /\ cause = NoCause
  /\ gwError = <<>>
  /\ result = "none"
  /\ invocations = [o \in RetryOps |-> 0]
  /\ sleeps = [o \in RetryOps |-> <<>>]
  /\ log = <<>>
  /\ inflight = 0
  /\ outcome = NoOutcome
  /\ decision = NoDecision
  /\ clock = 0
  /\ deadline = 0
  /\ NoServer
  /\ sessions = [u \in SessionUsers |-> 0]
  /\ spawned = <<>>
  /\ remote = {}
  /\ calls = [c \in Calls |-> NewCall]
  /\ cleanup = NoCleanup

sessEngVars ==
  <<cfgVars, reqVars, retryVars, persona, pc, log, inflight, outcome, deadline,
    srvVars>>

\* generateResponse(context, userId) into getOrCreateSession, up to its first
\* await: the list call when the user has an entry, the spawn call otherwise.
getOrCreateSession(c, userId) ==
  /\ calls[c].pc = "new"
  /\ IF sessions[userId] # 0
     THEN calls' = [calls EXCEPT ![c] = [pc |-> "checking", user |-> userId,
                                         key |-> sessions[userId]]]
     ELSE calls' = [calls EXCEPT ![c] = [pc |-> "spawning", user |-> userId,
                                         key |-> 0]]
  /\ UNCHANGED <<sessEngVars, sessions, spawned, remote, cleanup>>

\* isSessionActive has answered getOrCreateSession: the key is returned when
\* active, the user's entry is deleted and a session is spawned when not.
isSessionActive(c, listed) ==
  /\ calls[c].pc = "checking"
  /\ IF SessionListed(listed, calls[c].key)
     THEN /\ calls' = [calls EXCEPT ![c].pc = "sending"]
          /\ UNCHANGED sessions
     ELSE /\ sessions' = SessionsDelete(sessions, calls[c].user)
          /\ calls' = [calls EXCEPT ![c].pc = "spawning", ![c].key = 0]
  /\ UNCHANGED <<sessEngVars, spawned, remote, cleanup>>

\* createSession has been answered: the remote has spawned a session and its
\* key is stored for the user, or the spawn failed and the call throws.
createSession(c, ok) ==
  /\ calls[c].pc = "spawning"
  /\ IF ok
     THEN /\ spawned' = Append(spawned, calls[c].user)
          /\ remote' = remote \cup {Len(spawned) + 1}
          /\ sessions' = SessionsSet(sessions, calls[c].user, Len(spawned) + 1)
          /\ calls' = [calls EXCEPT ![c].pc = "sending",
                                    ![c].key = Len(spawned) + 1]
     ELSE /\ calls' = [calls EXCEPT ![c].pc = "failed"]
          /\ UNCHANGED <<sessions, spawned, remote>>
  /\ UNCHANGED <<sessEngVars, cleanup>>

\* The POST to /api/sessions/send has been answered.
sendToSession(c, ok) ==
  /\ calls[c].pc = "sending"
  /\ calls' = [calls EXCEPT ![c].pc = IF ok /\ calls[c].key \in remote
                                       THEN "done" ELSE "failed"]
  /\ UNCHANGED <<sessEngVars, sessions, spawned, remote, cleanup>>

\* A session ends on the remote side.
sessionEnds(k) ==
  /\ k \in remote
  /\ remote' = remote \ {k}
  /\ UNCHANGED <<sessEngVars, sessions, calls, cleanup, spawned>>

\* cleanupSessions is called.
cleanupSessions ==
  /\ cleanup.pc = "idle"
  /\ cleanup' = [cleanup EXCEPT !.pc = "iterating"]
  /\ UNCHANGED <<sessEngVars, sessions, spawned, remote, calls>>

\* The loop of cleanupSessions takes the next entry of the map and awaits
\* isSessionActive on its key, or ends when no entry is left.  The entries
\* come in insertion order, which is any order here.
cleanupNext ==
  /\ cleanup.pc = "iterating"
  /\ LET left == {u \in SessionUsers \ cleanup.visited : sessions[u] # 0}
     IN IF left = {}
        THEN cleanup' = [cleanup EXCEPT !.pc = "finished"]
        ELSE \E u \in left :
               cleanup' = [cleanup EXCEPT !.pc = "checking", !.user = u,
                                          !.key = sessions[u],
                                          !.visited = @ \cup {u}]
  /\ UNCHANGED <<sessEngVars, sessions, spawned, remote, calls>>

\* isSessionActive has answered cleanupSessions: the entry of the user is
\* deleted when the key it read is not active.  deleted keeps, for each
\* deletion, the key that was checked and the key that was mapped.
cleanupChecked(listed) ==
  /\ cleanup.pc = "checking"
  /\ IF SessionListed(listed, cleanup.key)
     THEN /\ cleanup' = [cleanup EXCEPT !.pc = "iterating"]
          /\ UNCHANGED sessions
     ELSE /\ sessions' = SessionsDelete(sessions, cleanup.user)
          /\ cleanup' =
               [cleanup EXCEPT !.pc = "iterating",
                               !.deleted = Append(@,
                                  [user |-> cleanup.user, checked |-> cleanup.key,
                                   mapped |-> sessions[cleanup.user]])]
  /\ UNCHANGED <<sessEngVars, spawned, remote, calls>>

SessionNext ==
  \/ \E c \in Calls, userId \in SessionUsers : getOrCreateSession(c, userId)
  \/ \E c \in Calls, listed \in BOOLEAN : isSessionActive(c, listed)
  \/ \E c \in Calls, ok \in BOOLEAN : createSession(c, ok)
  \/ \E c \in Calls, ok \in BOOLEAN : sendToSession(c, ok)
  \/ \E k \in remote : sessionEnds(k)
  \/ cleanupSessions
  \/ cleanupNext
  \/ \E listed \in BOOLEAN : cleanupChecked(listed)

SessionSpec == SessionInit /\ [][SessionNext]_vars

\* ----------------------------------------------------------------- claims

Count(ev) == Cardinality({i \in DOMAIN log : log[i] = ev})

Has(ev) == \E i \in DOMAIN log : log[i] = ev

InProcessMessage == op = "processMessage"

\* C1: processMessage never raises to its caller, whatever state the engine
\* is in when the message arrives: it returns a response or the apology.
C1_NeverRaises == InProcessMessage => outcome.kind # "raised"

\* C2: the tiers are walked in order: generateResponse is called only after
\* delegation has failed or was skipped, and the apology is returned only after
\* direct generation was attempted and has failed.
C2_TiersInOrder ==
  InProcessMessage =>
    /\ \A i \in DOMAIN log :
         log[i] = "genCall" =>
           \E j \in 1..(i - 1) : log[j] \in {"delegFailed", "delegSkipped"}
    /\ outcome.kind = "apology" => Has("genFailed")

\* C3: once delegateToAgent has succeeded, the request makes no skill-routing
\* and no direct-generation call, and what it returns is the formatted
\* delegation result.
C3_TerminalOnDelegation ==
  (InProcessMessage /\ Has("delegOk")) =>
    /\ ~Has("genCall") /\ ~Has("gpost") /\ ~Has("direct") /\ ~Has("skillroute")
    /\ pc \in {"store", "done"}
    /\ pc = "done" =>
         /\ outcome.kind = "response"
         /\ Len(outcome.text) = 4
         /\ outcome.text[1] = "**"
         /\ outcome.agent # "none"

C3_Witness ==
  /\ InProcessMessage
  /\ Has("delegOk")
  /\ pc = "done"
  /\ outcome.kind = "response"

\* C4: in delegateToAgent a reachable probe is followed by exactly one
\* chat-completion POST per attempt of the retry loop; an unreachable probe by
\* no POST, no retry and no backoff sleep: the call has failed.
C4_ProbeGatesPosts ==
  InProcessMessage =>
    /\ Count("dpost") = invocations["delegateToAgent"]
    /\ (opName = "delegateToAgent" /\ pc \in {"post_wait", "backoff"}) =>
         invocations["delegateToAgent"] = attempt + 1
    /\ Has("dpost") => Has("probeOk")
    /\ Has("probeDown") =>
         /\ Count("dpost") = 0
         /\ invocations["delegateToAgent"] = 0
         /\ sleeps["delegateToAgent"] = <<>>
         /\ pc = "dt_probed" \/ Has("delegFailed")

C4_Witness ==
  \/ /\ InProcessMessage /\ Has("probeDown") /\ Has("delegFailed")
     /\ pc = "fallback"
  \/ /\ InProcessMessage /\ Has("probeOk")
     /\ Count("dpost") = 3 /\ pc = "post_wait"

\* C5: withRetry invokes the operation at most maxRetries + 1 times.
C5_AttemptsBounded ==
  \A o \in RetryOps : invocations[o] <= gw.retry.maxRetries + 1

C5_Witness ==
  /\ gw.retry.maxRetries >= 2
  /\ invocations["generateResponse"] = gw.retry.maxRetries + 1
  /\ Has("genFailed")

MinOf(a, b) == IF a <= b THEN a ELSE b

\* C6: the backoff slept between attempt k and attempt k+1 (k from 0) is
\* min(baseDelay * 2^k, maxDelay), so no backoff exceeds maxDelay.
C6_BackoffFormula ==
  \A o \in RetryOps : \A i \in DOMAIN sleeps[o] :
    /\ sleeps[o][i] =
         MinOf(gw.retry.baseDelayMs * (2 ^ (i - 1)), gw.retry.maxDelayMs)
    /\ sleeps[o][i] <= gw.retry.maxDelayMs

C6_Witness ==
  \/ sleeps["delegateToAgent"] = <<1000, 1500>>
  \/ sleeps["generateResponse"] = <<1000, 2000, 4000>>

DigitValue(t) == CHOOSE d \in 0..9 : DigitChar[d + 1] = t

\* The status code an `HTTP <status>: ...` message carries.
StatusIn(msg) ==
  100 * DigitValue(msg[2]) + 10 * DigitValue(msg[3]) + DigitValue(msg[4])

\* C7: isRetryable is true for a timeout, a network failure and an HTTP error
\* with status >= 500, false for an agent-level error and an HTTP error with
\* status < 500.
C7_RetryableByCategory ==
  lastError # NoError =>
    LET category == categorizeError(lastError) IN
    /\ category \in {"timeout", "network"} => isRetryable(lastError)
    /\ category = "agent" => ~isRetryable(lastError)
    /\ category = "http" =>
         (isRetryable(lastError) <=> StatusIn(lastError.message) >= 500)

C7_Witness ==
  /\ categorizeError(lastError) = "http"
  /\ StatusIn(lastError.message) = 499
  /\ Has("delegFailed")
  /\ invocations["delegateToAgent"] = 1

\* C8: a fault raised because the remote answered with a non-2xx status is
\* classified as an HTTP error, whatever the status and the body text, and its
\* message carries that status.
C8_Non2xxIsHttp ==
  cause.kind = "status" =>
    /\ categorizeError(lastError) = "http"
    /\ StatusOfMessage(lastError.message) = StatusText(cause.status)

\* C9: a failed attempt whose cause is a 4xx answer or a malformed payload
\* ends the retry loop: no backoff sleep follows it.
C9_NoRetryOn4xxOrMalformed ==
  pc = "backoff" =>
    /\ ~(cause.kind = "status" /\ cause.status >= 400 /\ cause.status <= 499)
    /\ cause.kind # "payload"

\* The gateway was constructed without a usable auth token.
MissingCredential == gw.kind = "openclaw" /\ gw.authToken \in {<<>>, <<"">>}

\* C10: without an auth token generateResponse, delegateToAgent and
\* healthCheck report the missing credential before any network I/O: no probe
\* GET, no chat-completion POST, and the retry loop is never entered.
C10_NoTokenNoIO ==
  MissingCredential =>
    /\ ~Has("probe") /\ ~Has("dpost") /\ ~Has("gpost") /\ ~Has("hpost")
    /\ \A o \in RetryOps : invocations[o] = 0 /\ sleeps[o] = <<>>
    /\ pc \notin {"probe_wait", "dt_probed", "hc_probed", "retry_loop",
                  "post_wait", "backoff", "hpost_wait", "store"}
    /\ (op = "healthCheck" /\ pc = "done") =>
         outcome = Health(FALSE, <<"No auth token configured">>)
    /\ (InProcessMessage /\ pc = "fallback") =>
         gwError = <<"Auth token required for agent delegation">>
    /\ (InProcessMessage /\ pc = "pm_catch" /\ msgKind = "string") =>
         gwError = <<"Auth token required for OpenClaw OpenAI API">>

C10_Witness ==
  /\ MissingCredential
  /\ gw.authToken = <<"">>
  /\ InProcessMessage
  /\ Has("delegFailed")
  /\ Has("genFailed")
  /\ outcome.kind = "apology"

\* C11: generateResponse and delegateToAgent succeed only on a payload whose
\* first choice carries a non-empty text content; a 2xx answer with any other
\* payload fails the call with an agent-level error.
C11_OnlyValidPayloadSucceeds ==
  /\ (pc = "store" /\ opName \in RetryOps) =>
       result \notin {PayloadContent("emptyContent"),
                      PayloadContent("numberContent")}
  /\ cause.kind = "payload" => categorizeError(lastError) = "agent"

\* C12: orchestrateTask always returns, and what it returns is in the
\* vocabulary: the cleaned reply when that is in the vocabulary, 'main' for
\* every other reply and for every failure of the routing call.
C12_RouterTotal ==
  (InProcessMessage /\ decision # NoDecision) =>
    /\ pc = "dt_call"
    /\ taskType \in {"main", "coder", "marketing", "assistant"}
    /\ decision.kind = "threw" => taskType = "main"
    /\ decision.kind = "reply" =>
         LET agent == CleanDecision(decision.reply) IN
         IF Len(agent) = 1 /\ agent[1] \in {"main", "coder", "marketing", "assistant"}
         THEN taskType = agent[1]
         ELSE taskType = "main"

C12_Witness ==
  \/ /\ InProcessMessage /\ pc = "dt_call"
     /\ decision = Replied(<<" ", "Coder", "\n">>) /\ taskType = "coder"
  \/ /\ InProcessMessage /\ pc = "dt_call"
     /\ decision = Replied(<<"banana">>) /\ taskType = "main"

\* C13: for every destination orchestrateTask returns, delegateToAgent
\* addresses a defined agent identity and the result carries it; when no
\* attempt fails the delegation is one probe, one call of fn and one POST,
\* with no backoff sleep.
C13_DefinedIdentity ==
  InProcessMessage =>
    /\ targetAgent # "undefined"
    /\ outcome.agent # "undefined"
    /\ (pc = "store" /\ opName = "delegateToAgent" /\ lastError = NoError) =>
         /\ Count("probe") = 1
         /\ Count("dpost") = 1
         /\ invocations["delegateToAgent"] = 1
         /\ sleeps["delegateToAgent"] = <<>>

RECURSIVE SumOf(_)
SumOf(q) == IF q = <<>> THEN 0 ELSE Head(q) + SumOf(Tail(q))

\* C14: the probe has settled before the first delegation POST goes out; at
\* most one call is in flight; a POST after the first goes out only after the
\* attempt before it has failed and its backoff timer has run in full.
C14_Sequential ==
  InProcessMessage =>
    /\ inflight <= 1
    /\ pc = "probe_wait" => ~Has("dpost")
    /\ \A i \in DOMAIN log :
         /\ log[i] = "dpost" => \E j \in 1..(i - 1) : log[j] = "probeOk"
         /\ (log[i] \in {"dpost", "gpost"}
             /\ \E j \in 1..(i - 1) : log[j] = log[i]) => log[i - 1] = "sleep"
    /\ (opName \in RetryOps /\ pc = "post_wait") =>
         /\ inflight = 1
         /\ Len(sleeps[opName]) = attempt
         /\ clock = SumOf(sleeps["delegateToAgent"])
                    + SumOf(sleeps["generateResponse"])
    /\ pc = "backoff" => inflight = 0

C14_Witness ==
  /\ InProcessMessage
  /\ pc = "post_wait"
  /\ opName = "delegateToAgent"
  /\ attempt = 2
  /\ clock = 3000

C16_EveryCallHasDeadline ==
  (InProcessMessage /\ inflight > 0) => deadline > 0

\* C19: when fn succeeds after n failed attempts, withRetry has slept n
\* times, has called fn n + 1 times, n is at most maxRetries, and the payload
\* of the last attempt is what it returns.
C19_SuccessAfterRetries ==
  (pc = "store" /\ opName \in RetryOps) =>
    /\ Len(sleeps[opName]) = invocations[opName] - 1
    /\ attempt = Len(sleeps[opName])
    /\ attempt <= gw.retry.maxRetries
    /\ Count(PostOf(opName)) = attempt + 1
    /\ result # "none"
    /\ log[Len(log)] = OkEvent

C19_Witness ==
  /\ pc = "store"
  /\ opName = "delegateToAgent"
  /\ gw.retry.maxRetries = 3
  /\ cause = Answered(500)
  /\ sleeps["delegateToAgent"] = <<1000, 2000, 4000>>
  /\ invocations["delegateToAgent"] = 4
  /\ result = "text"

\* C20: when the attempts are used up or a failure is not retryable,
\* withRetry raises an error whose text is the operation label followed by
\* the classifier's message for the last failure, and no sleep follows the
\* last attempt.
C20_ComposedError ==
  (pc \in {"fallback", "pm_catch"} /\ opName \in RetryOps /\ lastError # NoError) =>
    /\ invocations[opName] = gw.retry.maxRetries + 1 \/ ~isRetryable(lastError)
    /\ Len(gwError) >= 2
    /\ gwError[1] = IF opName = "delegateToAgent"
                    THEN "OpenClaw delegateToAgent("
                    ELSE "OpenClaw generateResponse"
    /\ categorizeError(lastError) = "timeout" =>
         Includes(gwError, ": Request timed out")
    /\ categorizeError(lastError) = "network" =>
         Includes(gwError, ": Network error (")
    /\ categorizeError(lastError) = "http" =>
         \/ Includes(gwError, ": VPS server error (HTTP ")
         \/ Includes(gwError, ": HTTP ")
    /\ categorizeError(lastError) = "agent" =>
         gwError[Len(gwError)] = lastError.message[Len(lastError.message)]
    /\ Len(sleeps[opName]) = invocations[opName] - 1
    /\ log[Len(log)] = FailedEvent

C20_Witness ==
  /\ pc = "fallback"
  /\ opName = "delegateToAgent"
  /\ gw.retry.maxRetries = 3
  /\ invocations["delegateToAgent"] = 4
  /\ Len(sleeps["delegateToAgent"]) = 3
  /\ categorizeError(lastError) = "http"

\* C17: two delegations never send the same request tag.
C17_TagsUnique ==
  \A r1, r2 \in DOMAIN reqs :
    (r1 # r2 /\ reqs[r1].tag # <<>> /\ reqs[r2].tag # <<>>) =>
      reqs[r1].tag # reqs[r2].tag

\* C18: whatever other requests the server is handling, a request is
\* processed by an engine on the persona it named and is answered: it is
\* never failed, nor processed under another request's persona.
C18_RequestsIsolated ==
  \A r \in DOMAIN reqs :
    /\ reqs[r].handledAs \in {"none", reqs[r].persona}
    /\ reqs[r].pc = "done" => reqs[r].outcome = "response"

\* The apology of each tone, as the caller is to read it.
ExpectedApology(p) ==
  CASE ~p.loaded ->
         "I'm sorry, I encountered an error processing your message."
    [] p.loaded /\ p.tone = "friendly" /\ p.emoji_usage ->
         "Oops! I ran into a small issue there. Could you try asking that again?"
    [] p.loaded /\ p.tone = "friendly" /\ ~p.emoji_usage ->
         "Sorry about that! I had a little hiccup processing your message. Could you try again?"
    [] p.loaded /\ p.tone = "professional" ->
         "I apologize, but I encountered an error processing your request. Please try again."
    [] OTHER -> "Something went wrong there. Mind trying that again?"

\* C21: the catch block of processMessage returns the fixed apology of the
\* persona's tone and emoji setting, whatever failure brought it there, and
\* makes no network call.
C21_FixedApology ==
  [][(pc = "pm_catch" /\ pc' = "done") =>
       /\ outcome'.kind = "apology"
       /\ outcome'.text = <<ExpectedApology(persona)>>
       /\ log' = log
       /\ inflight' = inflight]_vars

C21_Witness ==
  /\ InProcessMessage
  /\ pc = "done"
  /\ outcome.kind = "apology"
  /\ outcome.text =
       <<"Oops! I ran into a small issue there. Could you try asking that again?">>
  /\ Count("dpost") = 1
  /\ Count("gpost") = 2

\* C22: after any failure of delegateToAgent the request goes on to the
\* direct-generation tier and calls generateResponse exactly once.
C22_FailureFallsBack ==
  (InProcessMessage /\ Has("delegFailed")) =>
    /\ outcome.kind # "raised"
    /\ ~Has("delegOk")
    /\ \/ pc \in {"fallback", "skill_wait", "gen"} /\ Count("genCall") = 0
       \/ Count("genCall") = 1
    /\ pc = "done" => Count("genCall") = 1

C22_Witness ==
  /\ InProcessMessage
  /\ pc = "done"
  /\ Has("delegFailed")
  /\ Count("dpost") = 4
  /\ Count("genCall") = 1
  /\ outcome.kind = "response"

\* C23: healthCheck returns a result, makes at most one probe and at most one
\* POST, the POST after a reachable probe, never enters the retry loop, and
\* reports healthy exactly when the probe was reachable and the POST was
\* answered 2xx; an unhealthy result carries an error text.
C23_HealthCheck ==
  op = "healthCheck" =>
    /\ outcome.kind # "raised"
    /\ Count("probe") <= 1
    /\ Count("hpost") <= 1
    /\ \A i \in DOMAIN log :
         log[i] = "hpost" => \E j \in 1..(i - 1) : log[j] = "probeOk"
    /\ ~Has("sleep")
    /\ \A o \in RetryOps : invocations[o] = 0
    /\ pc = "done" =>
         /\ outcome.kind = "health"
         /\ outcome.healthy <=> (Has("probeOk") /\ Has("hpostOk"))
         /\ ~outcome.healthy => outcome.text # <<>>

C23_Witness ==
  /\ op = "healthCheck"
  /\ pc = "done"
  /\ Has("probeOk")
  /\ Has("hpostFailed")
  /\ ~outcome.healthy

\* C24: checkConnection makes one GET and returns a result for every outcome:
\* a transport failure or an expired deadline gives reachable = false with an
\* error text, and every result carries a latency.
C24_ProbeOnce ==
  pc \in {"dt_probed", "hc_probed"} =>
    /\ Count("probe") = 1
    /\ Count("probeOk") + Count("probeDown") = 1
    /\ inflight = 0
    /\ probed.kind \in {"deadline", "transport"} =>
         /\ ~conn.reachable
         /\ conn.error # <<>>
    /\ probed.kind = "deadline" =>
         conn.error = <<"Connection timed out after 10s">>
    /\ conn.latencyMs > 0

C24_Witness ==
  /\ pc = "dt_probed"
  /\ probed.kind = "deadline"
  /\ ~conn.reachable
  /\ conn.latencyMs = 10000

\* C25: no step changes the gateway's configuration or retry policy.
C25_ConfigFrozen == [][gw' = gw]_vars

C25_Witness ==
  /\ gw.kind = "openclaw"
  /\ gw.retry.maxRetries = 2
  /\ pc = "done"
  /\ Has("dpost")
  /\ Has("gpost")
  /\ Has("genOk")

\* C27: when the store fails, processMessage still returns the response it
\* had, delegated or direct, and runs no further tier.
C27_StoreFailureHarmless ==
  (InProcessMessage /\ Has("storeFailed")) =>
    /\ pc = "done"
    /\ outcome.kind = "response"
    /\ log[Len(log)] = "storeFailed"
    /\ Has("delegOk") => (~Has("genCall") /\ Len(outcome.text) = 4)
    /\ ~Has("delegOk") => (Has("genOk") /\ Len(outcome.text) = 1)

C27_Witness ==
  /\ InProcessMessage
  /\ Has("storeFailed")
  /\ Has("delegOk")
  /\ pc = "done"
  /\ outcome.kind = "response"

\* C29: whatever the retry policy, an error withRetry raises comes after at
\* least one call of fn and is built from the failure of one.
C29_AtLeastOneAttempt ==
  (opName \in RetryOps /\ pc \in {"fallback", "pm_catch"}) =>
    /\ invocations[opName] >= 1
    /\ lastError # NoError

ActiveSessionsOf(u) == {k \in remote : spawned[k] = u}

\* C26: in the session-based gateway each user has one session of their own:
\* however the generateResponse calls of a user interleave, no second session
\* is spawned for the user while a session of theirs is active.
C26_OneSessionPerUser ==
  \A u \in SessionUsers : Cardinality(ActiveSessionsOf(u)) <= 1

\* C28: cleanupSessions deletes only the entry whose key it found inactive: it
\* never deletes an entry that was mapped to another session after its check
\* of the user began.
C28_CleanupDeletesChecked ==
  \A i \in 1..Len(cleanup.deleted) :
    cleanup.deleted[i].mapped = cleanup.deleted[i].checked

====
